---- MODULE Spec2Model ----
(***************************************************************************)
(* A model of malt/classes.py: the Molecule class that turns a parsed      *)
(* structure (RDKit mol) into the MOLECULE, ATOM and BOND blocks of a      *)
(* Tripos mol2 file.                                                       *)
(*                                                                         *)
(* Python values are modelled as follows.  A path is a sequence of one     *)
(* character strings, so that endswith, basename, slicing and int() are    *)
(* computed as Python computes them.  A parsed structure (an RDKit mol) is *)
(* a record [atoms, bonds, conf]; the atom with native index idx is        *)
(* atoms[idx + 1].  A charge is an integer number of thousandths.  An      *)
(* exception is the name of its Python class; "none" is a normal return.   *)
(* A name that may hold None, or be unbound, holds None / Unbound or       *)
(* Some(v), and Val gives v back.                                          *)
(***************************************************************************)
EXTENDS Integers, Sequences, FiniteSets, TLC

VARIABLES mols, index_lookup, atom_called, result

vars == <<mols, index_lookup, atom_called, result>>

\* ------------------------------------------------------------------ bounds
\* longest atom sequence of the structures atom_block() is applied to
MaxAtoms == 3
\* longest argument list handed to the constructor
MaxArgs == 3

\* --------------------------------------------------------- Python values
None == <<>>
Unbound == <<>>
Some(v) == <<v>>
Val(o) == o[1]
MolIds == {"A", "B"}

NO_SUBSTRUCTS == 1
MOLECULE_TYPE == "SMALL"

bond_types == [t \in {"AROMATIC", "SINGLE", "DOUBLE", "TRIPLE"} |->
                 CASE t = "AROMATIC" -> "ar"
                   [] t = "SINGLE" -> "1"
                   [] t = "DOUBLE" -> "2"
                   [] t = "TRIPLE" -> "3"]

\* list(bond_types.values()): the category order of the BOND block
bond_type_values == <<"ar", "1", "2", "3">>

atom_types == [h \in {"SP", "SP2", "SP3", "AROMATIC", "S"} |->
                 CASE h = "SP" -> "1"
                   [] h = "SP2" -> "2"
                   [] h = "SP3" -> "3"
                   [] h = "AROMATIC" -> "ar"
                   [] h = "S" -> ""]

\* ------------------------------------------------------- sequence helpers
Range(s) == {s[i] : i \in 1..Len(s)}

\* the position of the first x in s (s.index(x), 1-based), 0 when absent
RECURSIVE IndexOf(_, _, _)
IndexOf(s, x, i) ==
  IF i > Len(s) THEN 0 ELSE IF s[i] = x THEN i ELSE IndexOf(s, x, i + 1)

EndsWith(s, suffix) ==
  /\ Len(s) >= Len(suffix)
  /\ SubSeq(s, Len(s) - Len(suffix) + 1, Len(s)) = suffix

\* s[:-4]
DropLast4(s) == SubSeq(s, 1, Len(s) - 4)

\* s[1:]
DropFirst(s) == SubSeq(s, 2, Len(s))

\* the position of the last "/" in path, 0 when there is none
RECURSIVE LastSlash(_, _)
LastSlash(path, i) ==
  IF i = 0 THEN 0 ELSE IF path[i] = "/" THEN i ELSE LastSlash(path, i - 1)

\* os.path.basename
Basename(path) == SubSeq(path, LastSlash(path, Len(path)) + 1, Len(path))

DigitVal == [c \in {"0", "1", "2", "3", "4", "5", "6", "7", "8", "9"} |->
               CASE c = "0" -> 0 [] c = "1" -> 1 [] c = "2" -> 2 [] c = "3" -> 3
                 [] c = "4" -> 4 [] c = "5" -> 5 [] c = "6" -> 6 [] c = "7" -> 7
                 [] c = "8" -> 8 [] c = "9" -> 9]

RECURSIVE DigitsValue(_, _)
DigitsValue(s, acc) ==
  IF s = <<>> THEN acc ELSE DigitsValue(Tail(s), 10 * acc + DigitVal[Head(s)])

AllDigits(s) == s # <<>> /\ \A i \in 1..Len(s) : s[i] \in DOMAIN DigitVal

\* int(s) on a character sequence: an optional sign and decimal digits,
\* anything else is a ValueError
ParseInt(s) ==
  IF s # <<>> /\ Head(s) \in {"-", "+"}
  THEN IF AllDigits(Tail(s))
       THEN [err |-> "none",
             value |-> IF Head(s) = "-" THEN 0 - DigitsValue(Tail(s), 0)
                       ELSE DigitsValue(Tail(s), 0)]
       ELSE [err |-> "ValueError", value |-> 0]
  ELSE IF AllDigits(s)
       THEN [err |-> "none", value |-> DigitsValue(s, 0)]
       ELSE [err |-> "ValueError", value |-> 0]

\* a Python list subscript lst[i]: negative subscripts count from the end
PyIndexOk(lst, i) == 0 - Len(lst) <= i /\ i < Len(lst)
PyIndex(lst, i) == IF i >= 0 THEN lst[i + 1] ELSE lst[Len(lst) + i + 1]

\* --------------------------------------------------- atoms and structures
AtomicNum == [s \in {"H", "C", "N", "O", "P"} |->
                CASE s = "H" -> 1 [] s = "C" -> 6 [] s = "N" -> 7
                  [] s = "O" -> 8 [] s = "P" -> 15]

Atom(symbol, aromatic, hyb) ==
  [symbol |-> symbol, aromatic |-> aromatic, hyb |-> hyb]

Car == Atom("C", TRUE, "SP2")
Csp3 == Atom("C", FALSE, "SP3")
Nar == Atom("N", TRUE, "SP2")
Osp3 == Atom("O", FALSE, "SP3")
Hs == Atom("H", FALSE, "S")
Psp3d == Atom("P", FALSE, "SP3D")

AtomKinds == {Car, Csp3, Nar, Osp3, Hs, Psp3d}

Bond(b, e, t) == [begin |-> b, end |-> e, type |-> t]

\* the conformer of a structure of n atoms: one position per atom
Positions(n) == [i \in 1..n |-> <<i, 2 * i, 0 - i>>]

Structure(atoms, bonds) ==
  [atoms |-> atoms, bonds |-> bonds, conf |-> Positions(Len(atoms))]

GetAtoms(mol) == mol.atoms
GetBonds(mol) == mol.bonds
GetPositions(mol) == mol.conf

\* ------------------------------------------------------- the input files
PathM1 == <<"m", "1", ".", "p", "d", "b">>
PathM2 == <<"d", "/", "m", "2", ".", "p", "d", "b">>
PathM0 == <<"m", "0", ".", "p", "d", "b">>
PathA == <<"a", ".", "x", "y", "z">>
PathB == <<"b", ".", "x", "y", "z">>
PathC == <<"c", ".", "x", "y", "z">>
PathD == <<"d", ".", "x", "y", "z">>
\* an xyz file holding whatever atoms InitAtom chooses
PathX == <<"x", ".", "x", "y", "z">>
PathQ == <<"q", ".", "c", "s", "v">>
PathR == <<"r", ".", "c", "s", "v">>

StructA == Structure(<<Hs, Car, Osp3>>,
                     <<Bond(1, 2, "DOUBLE"), Bond(0, 1, "SINGLE")>>)
StructB == Structure(<<Car, Hs>>, <<Bond(0, 1, "SINGLE")>>)
StructC == Structure(<<Osp3>>, <<>>)
StructD == Structure(<<Osp3, Psp3d>>, <<Bond(0, 1, "DATIVE")>>)

\* Chem.MolFromPDBFile(path, removeHs=False)
MolFromPDBFile(path) ==
  CASE path = PathM1 -> StructA
    [] path = PathM2 -> StructB
    [] path = PathM0 -> StructA

\* mol_from_xyz(path), of malt/xyztomol.py
mol_from_xyz(path) ==
  CASE path = PathA -> StructA
    [] path = PathB -> StructB
    [] path = PathC -> StructC
    [] path = PathD -> StructD

\* list(csv.reader(file)): the rows of a charges file, a charge in thousandths
CsvFiles == {PathQ, PathR}
CsvRows(path) ==
  CASE path = PathQ -> << <<100, -250, 150>>, <<40, -40>> >>
    [] path = PathR -> << <<5, -5>> >>

\* rdPartialCharges.ComputeGasteigerCharges followed by the loop that reads
\* _GasteigerCharge off every atom: one charge per atom, in native order
GasteigerOf == [s \in DOMAIN AtomicNum |->
                  CASE s = "H" -> 60 [] s = "C" -> 0 - 42 [] s = "N" -> 0 - 310
                    [] s = "O" -> 0 - 390 [] s = "P" -> 115]

ComputeGasteigerCharges(mol) ==
  [i \in 1..Len(GetAtoms(mol)) |-> GasteigerOf[GetAtoms(mol)[i].symbol]]

\* ------------------------------------------------------------ construction
ExtPdb == <<".", "p", "d", "b">>
ExtXyz == <<".", "x", "y", "z">>

\* the attributes __init__ sets before it looks at its arguments
NewSelf(CalculateCharges) ==
  [path_to_xyz |-> None, _mol |-> None, _pdb_mol |-> None, _xyz_mol |-> None,
   charges |-> None, name |-> None, num_bonds |-> None, num_atoms |-> None,
   index |-> None, _CalculateCharges |-> CalculateCharges]

\* one iteration of the loop over args; f is the frame: self, the local
\* path_to_charges and the exception raised so far
ArgStep(f, arg, CalculateCharges) ==
  IF EndsWith(arg, ExtPdb)
  THEN LET name == DropLast4(Basename(arg))
           n == ParseInt(DropFirst(name))
       IN IF n.err # "none"
          THEN [f EXCEPT !.err = n.err]
          ELSE [f EXCEPT !.self._pdb_mol = Some(MolFromPDBFile(arg)),
                         !.self.name = Some(name),
                         !.self.index = Some(n.value)]
  ELSE IF EndsWith(arg, ExtXyz)
  THEN [f EXCEPT !.self.path_to_xyz = Some(arg),
                 !.self._xyz_mol = Some(mol_from_xyz(arg))]
  ELSE IF CalculateCharges = FALSE
  THEN [f EXCEPT !.path_to_charges = Some(arg)]
  ELSE f

RECURSIVE ArgLoop(_, _, _)
ArgLoop(f, args, CalculateCharges) ==
  IF args = <<>> \/ f.err # "none" THEN f
  ELSE ArgLoop(ArgStep(f, Head(args), CalculateCharges), Tail(args),
               CalculateCharges)

\* self._mol after line 68-69: only an xyz structure is ever assigned
ResolveMol(self) ==
  IF self._xyz_mol # None THEN [self EXCEPT !._mol = self._xyz_mol] ELSE self

get_external_charges(self, filename) ==
  IF filename \notin CsvFiles THEN [err |-> "FileNotFoundError", self |-> self]
  ELSE LET all_charges == CsvRows(filename)
       IN IF self.index = None THEN [err |-> "TypeError", self |-> self]
          ELSE IF ~PyIndexOk(all_charges, Val(self.index) - 1)
          THEN [err |-> "IndexError", self |-> self]
          ELSE [err |-> "none",
                self |-> [self EXCEPT !.charges =
                            Some(PyIndex(all_charges, Val(self.index) - 1))]]

\* __init__ from line 67 on, f being the frame the loop over args leaves:
\* err is the exception __init__ raises; when it is "none" the new instance
\* is self
FinishInit(f, CalculateCharges) ==
  LET s1 == ResolveMol(f.self)
  IN IF f.err # "none" THEN [err |-> f.err, self |-> s1]
     ELSE IF s1._mol = None THEN [err |-> "AttributeError", self |-> s1]
     ELSE LET s2 == [s1 EXCEPT
                       !.num_bonds = Some(Len(GetBonds(Val(s1._mol)))),
                       !.num_atoms = Some(Len(GetAtoms(Val(s1._mol))))]
          IN IF CalculateCharges = TRUE
             THEN [err |-> "none",
                   self |-> [s2 EXCEPT !.charges =
                               Some(ComputeGasteigerCharges(Val(s2._mol)))]]
             ELSE IF f.path_to_charges = Unbound
             THEN [err |-> "UnboundLocalError", self |-> s2]
             ELSE get_external_charges(s2, Val(f.path_to_charges))

NewFrame(CalculateCharges) ==
  [self |-> NewSelf(CalculateCharges), path_to_charges |-> Unbound,
   err |-> "none"]

\* Molecule(*args, CalculateCharges=...)
Molecule(args, CalculateCharges) ==
  FinishInit(ArgLoop(NewFrame(CalculateCharges), args, CalculateCharges),
             CalculateCharges)

\* Molecule(path) for an xyz file that parses to the structure mol
MoleculeFromXyz(path, mol) ==
  FinishInit([NewFrame(TRUE) EXCEPT !.self.path_to_xyz = Some(path),
                                    !.self._xyz_mol = Some(mol)], TRUE)

\* ------------------------------------------------- pandas / numpy helpers
\* np.arange(lo, hi) as a sequence
arange(lo, hi) == [i \in 1..(hi - lo) |-> lo + i - 1]

\* the order on sort keys: tuples of integers, compared column by column
RECURSIVE LexLess(_, _)
LexLess(a, b) ==
  IF a = <<>> \/ b = <<>> THEN FALSE
  ELSE IF Head(a) # Head(b) THEN Head(a) < Head(b)
  ELSE LexLess(Tail(a), Tail(b))

\* a stable sort, as DataFrame.sort_values and sorted() are: an element goes
\* behind every element whose key is not greater than its own
RECURSIVE InsertSorted(_, _)
InsertSorted(sorted, x) ==
  IF sorted = <<>> THEN <<x>>
  ELSE IF LexLess(x.key, Head(sorted).key) THEN <<x>> \o sorted
  ELSE <<Head(sorted)>> \o InsertSorted(Tail(sorted), x)

RECURSIVE SortLoop(_, _)
SortLoop(done, todo) ==
  IF todo = <<>> THEN done
  ELSE SortLoop(InsertSorted(done, Head(todo)), Tail(todo))

\* s sorted by keys, keys[i] being the key of s[i]: a tuple of integers
StableSort(s, keys) ==
  LET keyed == [i \in 1..Len(s) |-> [key |-> keys[i], val |-> s[i]]]
      sorted == SortLoop(<<>>, keyed)
  IN [i \in 1..Len(s) |-> sorted[i].val]

\* a dict as a function; d[k] = v overwrites
EmptyDict == <<>>
DictPut(d, k, v) == [x \in DOMAIN d \cup {k} |-> IF x = k THEN v ELSE d[x]]

\* the code of a value in a pd.Categorical with these categories
CategoryCode(categories, v) == IndexOf(categories, v, 1)

\* "%.3f" % charge, for a charge held in thousandths
Pad3(n) == IF n < 10 THEN "00" \o ToString(n)
           ELSE IF n < 100 THEN "0" \o ToString(n) ELSE ToString(n)

Format3f(charge) ==
  LET a == IF charge < 0 THEN 0 - charge ELSE charge
  IN (IF charge < 0 THEN "-" ELSE "") \o ToString(a \div 1000) \o "."
       \o Pad3(a % 1000)

\* --------------------------------------------------------------- elements
\* the keys of element_dict in insertion order (first appearance)
RECURSIVE FirstSeen(_, _)
FirstSeen(atoms, keys) ==
  IF atoms = <<>> THEN keys
  ELSE FirstSeen(Tail(atoms),
                 IF Head(atoms).symbol \in Range(keys) THEN keys
                 ELSE Append(keys, Head(atoms).symbol))

\* MoveHLast without the two lines that move 'H'
MoveHLastSkipped(elements) == elements

\* elements.remove('H'); elements.append('H')
MoveHLast(elements) ==
  IF "H" \in Range(elements)
  THEN Append(SelectSeq(elements, LAMBDA e : e # "H"), "H")
  ELSE elements

elements(self) ==
  LET keys == FirstSeen(GetAtoms(Val(self._mol)), <<>>)
  IN MoveHLast(StableSort(keys,
                          [i \in 1..Len(keys) |-> <<AtomicNum[keys[i]]>>]))

\* symbol -> the native indices of the atoms with that symbol, in order
elements_by_index(self) ==
  LET atoms == GetAtoms(Val(self._mol))
  IN [sym \in {atoms[i].symbol : i \in 1..Len(atoms)} |->
        SelectSeq(arange(0, Len(atoms)), LAMBDA idx : atoms[idx + 1].symbol = sym)]

coords(self) ==
  IF self._xyz_mol # None THEN GetPositions(Val(self._xyz_mol))
  ELSE GetPositions(Val(self._mol))

\* ---------------------------------------------------------- molecule_block
molecule_block(self) ==
  LET charge_type == IF self._CalculateCharges = TRUE THEN "GASTEIGER" ELSE "DFT"
  IN <<"@<TRIPOS>MOLECULE", self.name,
       <<Val(self.num_atoms), Val(self.num_bonds), NO_SUBSTRUCTS, 0, 0>>,
       MOLECULE_TYPE, charge_type>>

\* -------------------------------------------------------------- atom_block
\* the sybyl code the branches at line 185-191 leave in the local sybyl:
\* the value left by the previous iteration when no branch assigns
SybylAfter(atom, sybyl) ==
  IF atom.symbol = "C" \/ atom.symbol = "N"
  THEN IF atom.aromatic THEN Some(atom.symbol \o ".ar") ELSE sybyl
  ELSE IF atom.symbol = "H" THEN Some("H")
  ELSE Some(atom.symbol \o "." \o atom_types[atom.hyb])

\* one iteration of the loop over the atoms; f is the frame: the dataframe
\* tripos_atom, the local sybyl and the exception raised so far
AtomStep(self, f, i) ==
  LET atom == GetAtoms(Val(self._mol))[i]
      idx == i - 1
      symbol == atom.symbol
      charges == Val(self.charges)
  IN IF idx >= Len(charges) THEN [f EXCEPT !.err = "IndexError"]
     ELSE IF symbol \notin {"C", "N", "H"} /\ atom.hyb \notin DOMAIN atom_types
     THEN [f EXCEPT !.err = "KeyError"]
     ELSE LET sybyl == SybylAfter(atom, f.sybyl)
              label == IndexOf(elements_by_index(self)[symbol], idx, 1)
          IN IF sybyl = Unbound THEN [f EXCEPT !.err = "UnboundLocalError"]
             ELSE [f EXCEPT
                     !.sybyl = sybyl,
                     !.tripos_atom = Append(@,
                        [rdkit_index |-> idx,
                         atom_name |-> symbol \o ToString(label),
                         x_coord |-> coords(self)[idx + 1][1],
                         y_coord |-> coords(self)[idx + 1][2],
                         z_coord |-> coords(self)[idx + 1][3],
                         sybyl |-> Val(sybyl),
                         substruct |-> NO_SUBSTRUCTS,
                         substruct_name |-> self.name,
                         partial_charge |-> Format3f(charges[idx + 1]),
                         atom_symbol |-> symbol,
                         atom_index_label |-> label])]

RECURSIVE AtomLoop(_, _, _)
AtomLoop(self, f, i) ==
  IF i > Len(GetAtoms(Val(self._mol))) \/ f.err # "none" THEN f
  ELSE AtomLoop(self, AtomStep(self, f, i), i + 1)

\* sort_values(by=['atom_symbol', 'atom_index_label']), atom_symbol being
\* categorical in the order of elements()
SortAtoms(self, tripos_atom) ==
  StableSort(tripos_atom,
    [i \in 1..Len(tripos_atom) |->
       <<CategoryCode(elements(self), tripos_atom[i].atom_symbol),
         tripos_atom[i].atom_index_label>>])

\* RowNumbers with numpy's default start: np.arange(len(tripos_atom))
RowNumbersFromZero(n) == arange(0, n)

\* the row numbers given to a sorted dataframe of n rows
RowNumbers(n) == arange(1, n + 1)

\* DataFrame(data=RowNumbers, index=rdkit_index).to_dict()[0]
RECURSIVE IndexMapper(_, _, _, _)
IndexMapper(tripos_atom, data, k, d) ==
  IF k > Len(tripos_atom) THEN d
  ELSE IndexMapper(tripos_atom, data, k + 1,
                   DictPut(d, tripos_atom[k].rdkit_index, data[k]))

\* atom_block(): err, the block returned and the value the global
\* index_lookup is given
atom_block(self) ==
  LET f == AtomLoop(self, [tripos_atom |-> <<>>, sybyl |-> Unbound,
                          err |-> "none"], 1)
      sorted == SortAtoms(self, f.tripos_atom)
      index == RowNumbers(Len(sorted))
  IN IF f.err # "none" THEN [err |-> f.err, block |-> <<>>, lookup |-> Unbound]
     ELSE [err |-> "none",
           block |-> [k \in 1..Len(sorted) |->
                        [row |-> index[k],
                         atom_name |-> sorted[k].atom_name,
                         x_coord |-> sorted[k].x_coord,
                         y_coord |-> sorted[k].y_coord,
                         z_coord |-> sorted[k].z_coord,
                         sybyl |-> sorted[k].sybyl,
                         partial_charge |-> sorted[k].partial_charge]],
           lookup |-> Some(IndexMapper(sorted, RowNumbers(Len(sorted)), 1,
                                       EmptyDict))]

\* -------------------------------------------------------------- bond_block
\* one iteration of the loop over the bonds
BondStep(f, bond) ==
  IF bond.type \notin DOMAIN bond_types THEN [f EXCEPT !.err = "KeyError"]
  ELSE [f EXCEPT !.tripos_bond = Append(@,
          [begin_atom_rdkit |-> bond.begin, end_atom_rdkit |-> bond.end,
           bond_type |-> bond_types[bond.type]])]

RECURSIVE BondLoop(_, _)
BondLoop(f, bonds) ==
  IF bonds = <<>> \/ f.err # "none" THEN f
  ELSE BondLoop(BondStep(f, Head(bonds)), Tail(bonds))

\* what evaluating index_lookup[key] for every key raises: the global may be
\* unbound, or not hold the key
LookupRaises(lookup, keys) ==
  IF keys = <<>> THEN "none"
  ELSE IF lookup = Unbound THEN "NameError"
  ELSE IF \E i \in 1..Len(keys) : keys[i] \notin DOMAIN Val(lookup)
  THEN "KeyError"
  ELSE "none"

\* sort_values(by=['bond_type', 'begin']), bond_type being categorical in
\* the order of bond_type_values
SortBonds(tripos_bond) ==
  StableSort(tripos_bond,
    [i \in 1..Len(tripos_bond) |->
       <<CategoryCode(bond_type_values, tripos_bond[i].bond_type),
         tripos_bond[i].begin>>])

\* bond_block() of a molecule with at least one bond, reading the global
\* index_lookup
bond_block(self, lookup) ==
  LET f == BondLoop([tripos_bond |-> <<>>, err |-> "none"],
                    GetBonds(Val(self._mol)))
      tb == f.tripos_bond
      e1 == LookupRaises(lookup, [i \in 1..Len(tb) |-> tb[i].begin_atom_rdkit])
      e2 == LookupRaises(lookup, [i \in 1..Len(tb) |-> tb[i].end_atom_rdkit])
  IN IF f.err # "none" THEN [err |-> f.err, block |-> <<>>]
     ELSE IF e1 # "none" THEN [err |-> e1, block |-> <<>>]
     ELSE IF e2 # "none" THEN [err |-> e2, block |-> <<>>]
     ELSE LET withrows == [i \in 1..Len(tb) |->
                             [begin |-> Val(lookup)[tb[i].begin_atom_rdkit],
                              end |-> Val(lookup)[tb[i].end_atom_rdkit],
                              bond_type |-> tb[i].bond_type]]
              sorted == SortBonds(withrows)
              index == arange(1, Len(sorted) + 1)
          IN [err |-> "none",
              block |-> [k \in 1..Len(sorted) |->
                           [row |-> index[k], begin |-> sorted[k].begin,
                            end |-> sorted[k].end,
                            bond_type |-> sorted[k].bond_type]]]

\* the outcomes of bond_block().  On a molecule without bonds no row is
\* looked up, and DataFrame.apply on the empty frame hands back a frame, not
\* a column: depending on the pandas release the assignment to
\* tripos_bond['begin'] raises ValueError or the empty block is returned.
BondBlockOutcomes(self, lookup) ==
  IF GetBonds(Val(self._mol)) = <<>>
  THEN {[err |-> "ValueError", block |-> <<>>], [err |-> "none", block |-> <<>>]}
  ELSE {bond_block(self, lookup)}

\* ------------------------------------------------------------------ state
\* mols[m]: the Molecule instance the caller holds under the name m
\* index_lookup: the module global of that name
\* atom_called[m]: whether atom_block() has been called on mols[m], and how
\*   the last call ended
\* result: the last call and its outcome
Paths == {PathM1, PathM2, PathM0, PathA, PathB, PathQ, PathR}

ArgLists == UNION {[1..n -> Paths] : n \in 0..MaxArgs}

AtomSeqs == UNION {[1..n -> AtomKinds] : n \in 1..MaxAtoms}

Outcome(op, m, args, cc, err, value) ==
  [op |-> op, mol |-> m, args |-> args, CalculateCharges |-> cc, err |-> err,
   value |-> value]

NoCall == Outcome("none", "A", <<>>, TRUE, "none", <<>>)

\* the instances the formatting methods are exercised on
BlockMolecules ==
  {Molecule(<<PathA>>, TRUE).self, Molecule(<<PathB>>, TRUE).self,
   Molecule(<<PathC>>, TRUE).self, Molecule(<<PathD>>, TRUE).self,
   Molecule(<<PathM2, PathA, PathQ>>, FALSE).self}

Init ==
  /\ mols \in [MolIds -> {Some(self) : self \in BlockMolecules}]
  /\ index_lookup = Unbound
  /\ atom_called = [m \in MolIds |-> "no"]
  /\ result = NoCall

InitConstruct ==
  /\ mols = [m \in MolIds |-> None]
  /\ index_lookup = Unbound
  /\ atom_called = [m \in MolIds |-> "no"]
  /\ result = NoCall

InitAtom ==
  /\ \E atoms \in AtomSeqs :
       mols = [m \in MolIds |->
                 IF m = "A"
                 THEN Some(MoleculeFromXyz(PathX, Structure(atoms, <<>>)).self)
                 ELSE None]
  /\ index_lookup = Unbound
  /\ atom_called = [m \in MolIds |-> "no"]
  /\ result = NoCall

\* m = Molecule(*args, CalculateCharges=cc)
Construct(m, args, cc) ==
  /\ mols[m] = None
  /\ LET r == Molecule(args, cc)
     IN /\ mols' = IF r.err = "none" THEN [mols EXCEPT ![m] = Some(r.self)]
                   ELSE mols
        /\ result' = Outcome("__init__", m, args, cc, r.err, <<>>)
  /\ UNCHANGED <<index_lookup, atom_called>>

\* m.molecule_block()
MoleculeBlock(m) ==
  /\ mols[m] # None
  /\ result' = Outcome("molecule_block", m, <<>>, TRUE, "none",
                       molecule_block(Val(mols[m])))
  /\ UNCHANGED <<mols, index_lookup, atom_called>>

\* m.atom_block()
AtomBlock(m) ==
  /\ mols[m] # None
  /\ LET r == atom_block(Val(mols[m]))
     IN /\ index_lookup' = IF r.err = "none" THEN r.lookup ELSE index_lookup
        /\ atom_called' = [atom_called EXCEPT
                             ![m] = IF r.err = "none" THEN "returned"
                                    ELSE "raised"]
        /\ result' = Outcome("atom_block", m, <<>>, TRUE, r.err, r.block)
  /\ UNCHANGED mols

\* m.bond_block()
BondBlock(m) ==
  /\ mols[m] # None
  /\ \E r \in BondBlockOutcomes(Val(mols[m]), index_lookup) :
       result' = Outcome("bond_block", m, <<>>, TRUE, r.err, r.block)
  /\ UNCHANGED <<mols, index_lookup, atom_called>>

Next ==
  \E m \in MolIds :
    \/ MoleculeBlock(m)
    \/ AtomBlock(m)
    \/ BondBlock(m)

\* construction reads and writes nothing outside the new instance, so one
\* name is enough to construct under
NextConstruct ==
  \/ \E args \in ArgLists, cc \in BOOLEAN : Construct("A", args, cc)
  \/ MoleculeBlock("A")

NextAtom == \E m \in MolIds : AtomBlock(m)

\* two instances and any interleaving of their formatting calls
Spec == Init /\ [][Next]_vars

\* construction from every argument list over the input files
SpecConstruct == InitConstruct /\ [][NextConstruct]_vars

\* atom_block() on every atom sequence up to MaxAtoms
SpecAtom == InitAtom /\ [][NextAtom]_vars

\* ================================================================ claims
\* the instance the last call was made on, and its atoms
ResSelf == Val(mols[result.mol])
ResAtoms == GetAtoms(Val(ResSelf._mol))
AtomBlockReturned == result.op = "atom_block" /\ result.err = "none"
BondBlockReturned == result.op = "bond_block" /\ result.err = "none"

\* the 1-based position of atoms[i] among the atoms of its symbol
OccurrenceRank(atoms, i) ==
  Cardinality({j \in 1..i : atoms[j].symbol = atoms[i].symbol})

\* C1: when atom_block() has returned on a molecule of N atoms, the mapping
\* it stored has exactly the native indices 0..N-1 as keys and maps them
\* one-to-one onto the row numbers 1..N.
C1_RemapIsBijection ==
  AtomBlockReturned =>
    /\ index_lookup # Unbound
    /\ LET d == Val(index_lookup)
           N == Len(ResAtoms)
       IN /\ DOMAIN d = 0..(N - 1)
          /\ {d[i] : i \in DOMAIN d} = 1..N
          /\ \A i, j \in DOMAIN d : d[i] = d[j] => i = j

\* atom_block() has returned on a molecule of MaxAtoms atoms whose rows are
\* not in native order
C1_Witness ==
  /\ AtomBlockReturned
  /\ Len(ResAtoms) = MaxAtoms
  /\ \E i \in DOMAIN Val(index_lookup) : Val(index_lookup)[i] # i + 1

\* C10: atom_block() numbers the rows 1..N, grouped by element in the order
\* of elements() (every element once, ascending atomic number, hydrogen
\* last), and within an element by ascending occurrence rank; the atom
\* name of a row is the symbol followed by the occurrence rank.
C10_RowOrder ==
  AtomBlockReturned =>
    LET atoms == ResAtoms
        N == Len(atoms)
        E == elements(ResSelf)
        d == Val(index_lookup)
        block == result.value
        pos(sym) == CHOOSE k \in 1..Len(E) : E[k] = sym
    IN /\ Len(block) = N
       /\ \A k \in 1..N : block[k].row = k
       /\ Range(E) = {atoms[i].symbol : i \in 1..N}
       /\ \A k, l \in 1..Len(E) : k < l => E[k] # E[l]
       /\ \A k, l \in 1..Len(E) :
            (k < l /\ E[k] # "H" /\ E[l] # "H")
              => AtomicNum[E[k]] < AtomicNum[E[l]]
       /\ \A k \in 1..Len(E) : E[k] = "H" => k = Len(E)
       /\ \A i, j \in 1..N :
            d[i - 1] < d[j - 1] <=>
              \/ pos(atoms[i].symbol) < pos(atoms[j].symbol)
              \/ /\ atoms[i].symbol = atoms[j].symbol
                 /\ OccurrenceRank(atoms, i) < OccurrenceRank(atoms, j)
       /\ \A i \in 1..N :
            block[d[i - 1]].atom_name
              = atoms[i].symbol \o ToString(OccurrenceRank(atoms, i))

\* atom_block() has returned on a molecule whose first atom is a hydrogen,
\* followed by two atoms of one heavier element
C10_Witness ==
  /\ AtomBlockReturned
  /\ ResAtoms[1].symbol = "H"
  /\ \E i, j \in 1..Len(ResAtoms) :
       i < j /\ ResAtoms[i].symbol = ResAtoms[j].symbol
             /\ ResAtoms[i].symbol # "H"

\* C9: when the molecule holds a carbon or nitrogen atom that is not
\* aromatic, atom_block() raises and returns no ATOM block.
C9_NonAromaticRaises ==
  (/\ result.op = "atom_block"
   /\ \E i \in 1..Len(ResAtoms) :
        ResAtoms[i].symbol \in {"C", "N"} /\ ~ResAtoms[i].aromatic)
    => result.err # "none"

\* C2: bond_block() on a molecule (with bonds to number) on which
\* atom_block() has not been called fails, whatever was called on other
\* instances; it returns no BOND block.
C2_BondBlockNeedsAtomBlock ==
  (/\ result.op = "bond_block"
   /\ atom_called[result.mol] = "no"
   /\ GetBonds(Val(ResSelf._mol)) # <<>>)
    => result.err # "none"

\* the rows bond_block() owes a molecule: its bonds, the endpoints replaced
\* by the rows the molecule's own atom_block() gave them
OwnBondRows(self) ==
  LET own == Val(atom_block(self).lookup)
      bonds == GetBonds(Val(self._mol))
  IN {<<own[bonds[i].begin], own[bonds[i].end], bond_types[bonds[i].type]>> :
        i \in 1..Len(bonds)}

\* C3: when atom_block() has returned on a molecule, the begin and end
\* numbers a later bond_block() on it emits are those of the mapping built
\* from its own atoms, whatever atom_block() calls other instances saw in
\* between.
C3_BondBlockUsesOwnMapping ==
  (BondBlockReturned /\ atom_called[result.mol] = "returned")
    => {<<result.value[k].begin, result.value[k].end,
          result.value[k].bond_type>> : k \in 1..Len(result.value)}
         = OwnBondRows(ResSelf)

\* C4: after atom_block() and then bond_block() on a molecule, every begin
\* and end number of the BOND block is a row number of its ATOM block:
\* 1 <= n <= atom count.
C4_BondEndpointsAreRows ==
  (BondBlockReturned /\ atom_called[result.mol] = "returned")
    => \A k \in 1..Len(result.value) :
         /\ result.value[k].begin \in 1..Val(ResSelf.num_atoms)
         /\ result.value[k].end \in 1..Val(ResSelf.num_atoms)

\* the arguments of the last call hold a path with this extension
ArgsHave(ext) ==
  \E i \in 1..Len(result.args) : EndsWith(result.args[i], ext)

\* what the loop over the arguments of the last constructor call read
ArgFrame ==
  ArgLoop(NewFrame(result.CalculateCharges), result.args,
          result.CalculateCharges)

\* the exception classes Python files under LookupError
IsLookupError(e) == e \in {"LookupError", "IndexError", "KeyError"}

\* the PDB file and the XYZ file a molecule was built from describe the
\* same structure, as the module requires of its input
SameStructure(self) == self._pdb_mol = None \/ self._pdb_mol = self._xyz_mol

\* C5: constructing with neither a PDB nor an XYZ path raises ParseError.
C5_NoStructureRaisesParseError ==
  (result.op = "__init__" /\ ~ArgsHave(ExtPdb) /\ ~ArgsHave(ExtXyz))
    => result.err = "ParseError"

\* C6: construction in charge-computing mode with a PDB path, an XYZ path
\* or both succeeds, and num_atoms and num_bonds are the counts of the
\* resolved structure: the XYZ one when an XYZ path is given, else the PDB
\* one.
C6_ResolvesStructure ==
  (/\ result.op = "__init__"
   /\ result.CalculateCharges = TRUE
   /\ ArgsHave(ExtPdb) \/ ArgsHave(ExtXyz))
    => LET f == ArgFrame.self
           resolved == IF f._xyz_mol # None THEN Val(f._xyz_mol)
                       ELSE Val(f._pdb_mol)
       IN /\ result.err = "none"
          /\ mols[result.mol] # None
          /\ Val(ResSelf.num_atoms) = Len(GetAtoms(resolved))
          /\ Val(ResSelf.num_bonds) = Len(GetBonds(resolved))

\* C7: a molecule constructed from a PDB and an XYZ file of one structure
\* has exactly one charge per atom, in either charge mode.
C7_OneChargePerAtom ==
  \A m \in MolIds :
    (mols[m] # None /\ SameStructure(Val(mols[m])))
      => Len(Val(Val(mols[m]).charges)) = Val(Val(mols[m]).num_atoms)

\* C8: when construction (from a PDB and an XYZ file of one structure and
\* a charges file) reaches get_external_charges, the row at the
\* 1-based molecule index is taken, and the call fails with a LookupError
\* when the index is below 1 or above the number of rows.
C8_RowByOneBasedIndex ==
  (/\ result.op = "__init__"
   /\ result.CalculateCharges = FALSE
   /\ ArgFrame.err = "none"
   /\ ArgFrame.self._xyz_mol # None
   /\ SameStructure(ArgFrame.self)
   /\ ArgFrame.self.index # None
   /\ ArgFrame.path_to_charges # Unbound)
    => LET rows == CsvRows(Val(ArgFrame.path_to_charges))
           index == Val(ArgFrame.self.index)
       IN IF index \in 1..Len(rows)
          THEN /\ result.err = "none"
               /\ Val(ResSelf.charges) = rows[index]
          ELSE IsLookupError(result.err)
====
